---- MODULE Spec2Model ----
(***************************************************************************)
(* Model of app.py: the disaster-recap dashboard.                          *)
(*                                                                         *)
(*   _to_number                 numeric coercion of one cell               *)
(*   extract_province_section   marker search, slicing, cleaning           *)
(*   load_from_excel / script   the two loads, the merge and the render    *)
(*                                                                         *)
(* A text is a sequence of one-character strings.  The characters U+2014   *)
(* (em dash) and U+2013 (en dash) are written "EMDASH" and "ENDASH".       *)
(* A cell is a record [kind, s, n]: kind "empty" is a missing cell (NaN),  *)
(* kind "text" carries the text s, kind "num" carries the integer n, kind  *)
(* "other" is a value that is neither (a datetime), with its str() in s.   *)
(***************************************************************************)
EXTENDS Integers, Sequences, FiniteSets, TLC

VARIABLES
    x,          \* SpecNum: the cell handed to _to_number
    num_pc,     \* SpecNum: "call" before the call, "returned" / "raised" after
    num_out,    \* SpecNum: the value _to_number returned
    df_raw,     \* SpecExtract: the raw grid [ncols, rows]
    year,       \* SpecExtract: the year passed by the caller
    ex_pc,      \* SpecExtract: "call" before the call, "returned" / "raised" after
    ex_exc,     \* SpecExtract: the exception raised ("none" when it returned)
    ex_out,     \* SpecExtract: the table returned (a sequence of records)
    marker_idx, \* SpecExtract: the marker row the call chose (-1: none)
    files,      \* SpecApp: per year, [exists, readable, grid] of the data file
    df23,       \* SpecApp: the table loaded for 2023
    df24,       \* SpecApp: the table loaded for 2024
    df,         \* SpecApp: the unified table
    pc,         \* SpecApp: position of the script
    error_shown,\* SpecApp: st.error was called
    rendered    \* SpecApp: the table the presentation layer rendered

vars == <<x, num_pc, num_out, df_raw, year, ex_pc, ex_exc, ex_out, marker_idx,
          files, df23, df24, df, pc, error_shown, rendered>>

-----------------------------------------------------------------------------
(* Bounds *)

MaxStrLen == 4
MaxRows == 3
MaxCols == 14
MaxAppRows == 2

-----------------------------------------------------------------------------
(* Cells and texts *)

Empty == [kind |-> "empty", s |-> <<>>, n |-> 0]
Text(t) == [kind |-> "text", s |-> t, n |-> 0]
Num(i) == [kind |-> "num", s |-> <<>>, n |-> i]
Other(t) == [kind |-> "other", s |-> t, n |-> 0]

Digits == <<"0", "1", "2", "3", "4", "5", "6", "7", "8", "9">>
Lowers == <<"a", "b", "c", "d", "e", "f", "g", "h", "i", "j", "k", "l", "m",
            "n", "o", "p", "q", "r", "s", "t", "u", "v", "w", "x", "y", "z">>
Uppers == <<"A", "B", "C", "D", "E", "F", "G", "H", "I", "J", "K", "L", "M",
            "N", "O", "P", "Q", "R", "S", "T", "U", "V", "W", "X", "Y", "Z">>

Range(f) == {f[i] : i \in DOMAIN f}
IndexOf(c, f) == CHOOSE i \in DOMAIN f : f[i] = c

IsDigitChar(c) == c \in Range(Digits)
DigitVal(c) == IndexOf(c, Digits) - 1
IsSpace(c) == c = " "

\* str.strip(): whitespace removed at both ends
RECURSIVE LStrip(_)
LStrip(t) == IF t # <<>> /\ IsSpace(Head(t)) THEN LStrip(Tail(t)) ELSE t

RECURSIVE RStrip(_)
RStrip(t) ==
    IF t # <<>> /\ IsSpace(t[Len(t)]) THEN RStrip(SubSeq(t, 1, Len(t) - 1)) ELSE t

Strip(t) == RStrip(LStrip(t))

\* str.replace(",", "")
RECURSIVE ReplaceCommas(_)
ReplaceCommas(t) ==
    IF t = <<>> THEN <<>>
    ELSE IF Head(t) = "," THEN ReplaceCommas(Tail(t))
    ELSE <<Head(t)>> \o ReplaceCommas(Tail(t))

\* str.isdigit(): non-empty and every character a digit
IsDigit(t) == t # <<>> /\ \A i \in DOMAIN t : IsDigitChar(t[i])

\* int() of a text of digits
RECURSIVE DigitsToInt(_)
DigitsToInt(t) ==
    IF t = <<>> THEN 0
    ELSE 10 * DigitsToInt(SubSeq(t, 1, Len(t) - 1)) + DigitVal(t[Len(t)])

\* str() of an integer
RECURSIVE NatToStr(_)
NatToStr(i) ==
    IF i < 10 THEN <<Digits[i + 1]>>
    ELSE NatToStr(i \div 10) \o <<Digits[(i % 10) + 1]>>

IntToStr(i) == IF i < 0 THEN <<"-">> \o NatToStr(0 - i) ELSE NatToStr(i)

\* float() of a text: [ok, v]; ok = FALSE is the ValueError.  float() ignores
\* surrounding whitespace and reads an optional sign followed by digits.
StrToFloat(t) ==
    LET u == Strip(t)
        signed == u # <<>> /\ Head(u) \in {"-", "+"}
        body == IF signed THEN Tail(u) ELSE u
    IN  IF IsDigit(body)
        THEN [ok |-> TRUE,
              v |-> IF signed /\ Head(u) = "-" THEN 0 - DigitsToInt(body)
                    ELSE DigitsToInt(body)]
        ELSE [ok |-> FALSE, v |-> 0]

\* str(x) / astype(str) of a cell
CellStr(c) ==
    CASE c.kind = "empty" -> <<"n", "a", "n">>
      [] c.kind = "text" -> c.s
      [] c.kind = "num" -> IntToStr(c.n)
      [] OTHER -> c.s

\* pd.isna(x)
IsNa(c) == c.kind = "empty"

-----------------------------------------------------------------------------
(* _to_number *)

DashVariants == {<<"-">>, <<"EMDASH">>, <<"ENDASH">>, <<>>}

\* float(x) of a cell that is not a text: only a number converts
FloatOfValue(c) ==
    IF c.kind = "num" THEN [ok |-> TRUE, v |-> c.n] ELSE [ok |-> FALSE, v |-> 0]

\* Variant: the commas are left in the text handed to float()
_to_number_keeps_commas(c) ==
    IF IsNa(c) THEN [exc |-> "none", value |-> 0]
    ELSE IF c.kind = "text"
    THEN LET s == Strip(c.s)
         IN  IF s \in DashVariants THEN [exc |-> "none", value |-> 0]
             ELSE LET p == StrToFloat(s)
                  IN  [exc |-> "none", value |-> IF p.ok THEN p.v ELSE 0]
    ELSE LET p == FloatOfValue(c)
         IN  [exc |-> "none", value |-> IF p.ok THEN p.v ELSE 0]

_to_number(c) ==
    IF IsNa(c) THEN [exc |-> "none", value |-> 0]
    ELSE IF c.kind = "text"
    THEN LET s == Strip(c.s)
         IN  IF s \in DashVariants THEN [exc |-> "none", value |-> 0]
             ELSE LET p == StrToFloat(ReplaceCommas(s))
                  IN  [exc |-> "none", value |-> IF p.ok THEN p.v ELSE 0]
    ELSE LET p == FloatOfValue(c)
         IN  [exc |-> "none", value |-> IF p.ok THEN p.v ELSE 0]

-----------------------------------------------------------------------------
(* extract_province_section *)

EXPECTED_COLS ==
    <<"Kode_Provinsi", "Provinsi", "Jumlah_Kejadian", "Meninggal_Hilang",
      "Luka_Luka", "Mengungsi_Terdampak", "Rumah_Rusak_Berat",
      "Rumah_Rusak_Sedang", "Rumah_Rusak_Ringan", "Rumah_Terendam",
      "Fasilitas_Pendidikan", "Fasilitas_Peribadatan", "Fasilitas_Kesehatan">>

NUM_COLS ==
    SelectSeq(EXPECTED_COLS, LAMBDA c : c \notin {"Kode_Provinsi", "Provinsi"})

Marker ==
    <<"K", "o", "d", "e", " ", "W", "i", "l", "a", "y", "a", "h", " ",
      "P", "r", "o", "v", "i", "n", "s", "i">>

\* str.contains(m): m occurs in t as a substring
Contains(t, m) ==
    \E i \in 1..(Len(t) - Len(m) + 1) : SubSeq(t, i, i + Len(m) - 1) = m

\* str.startswith(p)
StartsWith(t, p) == Len(t) >= Len(p) /\ SubSeq(t, 1, Len(p)) = p

IsLetter(c) == c \in Range(Lowers) \cup Range(Uppers)
ToUpper(c) == IF c \in Range(Lowers) THEN Uppers[IndexOf(c, Lowers)] ELSE c
ToLower(c) == IF c \in Range(Uppers) THEN Lowers[IndexOf(c, Uppers)] ELSE c

\* str.title(): a letter is upper-cased unless the character before it is a letter
RECURSIVE TitleFrom(_, _)
TitleFrom(t, prev_cased) ==
    IF t = <<>> THEN <<>>
    ELSE IF IsLetter(Head(t))
    THEN <<IF prev_cased THEN ToLower(Head(t)) ELSE ToUpper(Head(t))>>
         \o TitleFrom(Tail(t), TRUE)
    ELSE <<Head(t)>> \o TitleFrom(Tail(t), FALSE)

Title(t) == TitleFrom(t, FALSE)

SetMin(S) == CHOOSE m \in S : \A o \in S : m <= o

\* Row labels are those of the RangeIndex: 0 .. n - 1; label i is rows[i + 1].
Labels(g) == 0..(Len(g.rows) - 1)
CellAt(g, i, j) == g.rows[i + 1][j]

\* The rows whose first-column cell, as text, contains the marker
FirstColMatches(g) == {i \in Labels(g) : Contains(CellStr(CellAt(g, i, 1)), Marker)}

\* The rows with some cell that, as text, contains the marker
AnyCellMatches(g) ==
    {i \in Labels(g) : \E j \in 1..g.ncols : Contains(CellStr(CellAt(g, i, j)), Marker)}

\* Variant: every cell is searched at once, the first column has no precedence
MarkerIndex_any_cell_first(g) == AnyCellMatches(g)

\* marker_idx as an index object: the first-column matches, else the any-cell ones
MarkerIndex(g) ==
    IF FirstColMatches(g) # {} THEN FirstColMatches(g) ELSE AnyCellMatches(g)

\* Variant: the slice starts at the marker row itself (iloc[marker_idx:])
RowsAfter_from_marker(g, m_idx) == {i \in Labels(g) : i >= m_idx}

\* df_raw.iloc[marker_idx + 1 :]: the labels of the rows kept
RowsAfter(g, m_idx) == {i \in Labels(g) : i > m_idx}

\* df.iloc[:, :13]: the number of columns kept
SlicedCols(g) == IF g.ncols < Len(EXPECTED_COLS) THEN g.ncols ELSE Len(EXPECTED_COLS)

\* The cell of row i in the column named c, once the columns are renamed
Col(g, i, c) == CellAt(g, i, IndexOf(c, EXPECTED_COLS))

\* dropna(subset = ["Kode_Provinsi", "Provinsi"], how = "any")
DropNa(g, S) ==
    {i \in S : ~IsNa(Col(g, i, "Kode_Provinsi")) /\ ~IsNa(Col(g, i, "Provinsi"))}

\* df[~df["Kode_Provinsi"].astype(str).str.startswith("-")]
DropPlaceholders(g, S) ==
    {i \in S : ~StartsWith(CellStr(Col(g, i, "Kode_Provinsi")), <<"-">>)}

\* lambda x: str(int(x)) if str(x).strip().isdigit() else str(x).strip()
CleanCode(c) ==
    LET t == Strip(CellStr(c))
    IN  IF IsDigit(t) THEN IntToStr(DigitsToInt(t)) ELSE t

\* astype(str).str.strip().str.title()
CleanName(c) == Title(Strip(CellStr(c)))

\* Variant: flooded houses are added to the total as well
TotalCols_with_flooded ==
    <<"Jumlah_Kejadian", "Meninggal_Hilang", "Luka_Luka", "Mengungsi_Terdampak",
      "Rumah_Rusak_Berat", "Rumah_Rusak_Sedang", "Rumah_Rusak_Ringan",
      "Rumah_Terendam">>

\* The columns summed into Total_Dampak_Indikator
TotalCols ==
    <<"Jumlah_Kejadian", "Meninggal_Hilang", "Luka_Luka", "Mengungsi_Terdampak",
      "Rumah_Rusak_Berat", "Rumah_Rusak_Sedang", "Rumah_Rusak_Ringan">>

RECURSIVE SumOver(_, _)
SumOver(f, cs) == IF cs = <<>> THEN 0 ELSE f[Head(cs)] + SumOver(f, Tail(cs))

\* One cleaned row: the label, the two texts, the eleven numbers, year and total
CleanRow(g, i, yr) ==
    LET nums == [c \in Range(NUM_COLS) |-> _to_number(Col(g, i, c)).value]
    IN  [index |-> i,
         Kode_Provinsi |-> CleanCode(Col(g, i, "Kode_Provinsi")),
         Provinsi |-> CleanName(Col(g, i, "Provinsi")),
         Jumlah_Kejadian |-> nums["Jumlah_Kejadian"],
         Meninggal_Hilang |-> nums["Meninggal_Hilang"],
         Luka_Luka |-> nums["Luka_Luka"],
         Mengungsi_Terdampak |-> nums["Mengungsi_Terdampak"],
         Rumah_Rusak_Berat |-> nums["Rumah_Rusak_Berat"],
         Rumah_Rusak_Sedang |-> nums["Rumah_Rusak_Sedang"],
         Rumah_Rusak_Ringan |-> nums["Rumah_Rusak_Ringan"],
         Rumah_Terendam |-> nums["Rumah_Terendam"],
         Fasilitas_Pendidikan |-> nums["Fasilitas_Pendidikan"],
         Fasilitas_Peribadatan |-> nums["Fasilitas_Peribadatan"],
         Fasilitas_Kesehatan |-> nums["Fasilitas_Kesehatan"],
         Tahun |-> yr,
         Total_Dampak_Indikator |-> SumOver(nums, TotalCols)]

\* The labels of S in increasing order
RECURSIVE Ascending(_)
Ascending(S) == IF S = {} THEN <<>> ELSE <<SetMin(S)>> \o Ascending(S \ {SetMin(S)})

\* An exception of _to_number inside apply() leaves through the caller
CoercionRaises(g, S) ==
    \E i \in S : \E c \in Range(NUM_COLS) : _to_number(Col(g, i, c)).exc # "none"

Raise(e) == [exc |-> e, marker_idx |-> -1, table |-> <<>>]

extract_province_section(g, yr) ==
    IF g.ncols = 0 THEN Raise("IndexError")
    ELSE IF MarkerIndex(g) = {} THEN Raise("StructureError")
    ELSE LET m_idx == SetMin(MarkerIndex(g))
             kept == DropPlaceholders(g, DropNa(g, RowsAfter(g, m_idx)))
             order == Ascending(kept)
         IN  IF SlicedCols(g) # Len(EXPECTED_COLS) THEN Raise("LengthMismatch")
             ELSE IF CoercionRaises(g, kept) THEN Raise("ValueError")
             ELSE [exc |-> "none",
                   marker_idx |-> m_idx,
                   table |-> [k \in DOMAIN order |-> CleanRow(g, order[k], yr)]]

\* The outcomes of a call.  On a grid without rows the any-cell search (apply
\* over axis 1 of an empty frame) yields a frame, not a mask, and indexing the
\* index with it ends either in the empty index (the structure error) or in
\* an indexing error of pandas, depending on the build.
ExtractOutcomes(g, yr) ==
    IF g.ncols > 0 /\ Len(g.rows) = 0
    THEN {Raise("StructureError"), Raise("IndexingError")}
    ELSE {extract_province_section(g, yr)}

-----------------------------------------------------------------------------
(* Inputs *)

\* Texts of at most n characters over alphabet A
TextsUpTo(A, n) == UNION {[1..k -> A] : k \in 0..n}

NumAlphabet == {"1", "2", ",", " ", "-", "EMDASH", "ENDASH", "x"}

NumCells ==
    {Empty, Other(<<"2", "0", "2", "3", "-", "0", "1", "-", "0", "1">>)}
    \cup {Num(i) : i \in {-7, 0, 3, 1234}}
    \cup {Text(<<"1", ",", "2", "3", "4">>), Text(<<" ", "1", ",", "2", "3", "4", " ">>)}
    \cup {Text(t) : t \in TextsUpTo(NumAlphabet, MaxStrLen)}

T_aceh == <<" ", "a", "c", "e", "h", " ">>
T_jawa == <<"j", "a", "w", "a", " ", "b", "a", "r", "a", "t">>
T_bali == <<"B", "A", "L", "I">>
T_total == <<"T", "o", "t", "a", "l">>
T_lower_marker ==
    <<"k", "o", "d", "e", " ", "w", "i", "l", "a", "y", "a", "h", " ",
      "p", "r", "o", "v", "i", "n", "s", "i">>
T_inner_marker == <<"N", "o", ".", " ">> \o Marker \o <<" ", "*">>

\* The eleven indicator cells of a row
N_empty == [k \in 1..11 |-> Empty]
N_powers ==
    <<Num(1), Num(2), Num(4), Num(8), Num(16), Num(32), Num(64), Num(128),
      Num(256), Num(512), Num(1024)>>
N_example ==
    <<Text(<<"5">>), Text(<<"2">>), Text(<<"-">>), Text(<<"1", "0", "0">>),
      Text(<<"0">>), Text(<<"0">>), Text(<<"0">>), Text(<<"0">>),
      Text(<<"0">>), Text(<<"0">>), Text(<<"0">>)>>
N_mixed ==
    <<Text(<<"-", "5">>), Num(-3), Text(<<"1", ",", "2", "3", "4">>), Empty,
      Text(<<" ", "7", " ">>), Text(<<"EMDASH">>), Text(<<"a", "b", "c">>),
      Text(<<"9">>), Num(6), Text(<<"ENDASH">>), Text(<<",">>)>>

\* A column beyond the thirteenth: a total kept by the sheet
ExtraCell == Num(9999)

S_marker == <<Text(Marker), Text(<<"P", "r", "o", "v">>), N_empty>>
S_inner_marker == <<Empty, Text(T_inner_marker), N_empty>>
S_lower_marker == <<Text(T_lower_marker), Empty, N_empty>>
S_aceh == <<Text(<<"1", "1">>), Text(T_aceh), N_example>>
S_jawa == <<Text(<<" ", "0", "0", "7", " ">>), Text(T_jawa), N_powers>>
S_total == <<Text(<<"-", "1">>), Text(T_total), N_powers>>
S_spaced_total == <<Text(<<" ", "-", "1">>), Text(T_total), N_example>>
S_num_total == <<Num(-2), Text(T_total), N_mixed>>
S_bali == <<Num(51), Text(T_bali), N_mixed>>
S_no_code == <<Empty, Text(T_bali), N_powers>>
S_no_name == <<Text(<<"1", "2">>), Empty, N_powers>>
S_blank == <<Text(<<" ">>), Text(<<" ">>), N_example>>

RowShapes ==
    {S_marker, S_inner_marker, S_lower_marker, S_aceh, S_jawa, S_total,
     S_spaced_total, S_num_total, S_bali, S_no_code, S_no_name, S_blank}

\* A row of n cells of the given shape
RowOf(shape, n) ==
    SubSeq(<<shape[1], shape[2]>> \o shape[3]
             \o [k \in 1..(MaxCols - Len(EXPECTED_COLS)) |-> ExtraCell],
           1, n)

ColCounts == {0, 1, Len(EXPECTED_COLS) - 1, Len(EXPECTED_COLS), MaxCols}

Grid(n, shapes) == [ncols |-> n, rows |-> [k \in DOMAIN shapes |-> RowOf(shapes[k], n)]]

Grids == {Grid(n, shapes) : n \in ColCounts, shapes \in TextsUpTo(RowShapes, MaxRows)}

AppShapes == {S_marker, S_aceh, S_bali, S_spaced_total}

AppGrids ==
    {Grid(n, shapes) :
        n \in {Len(EXPECTED_COLS) - 1, Len(EXPECTED_COLS)},
        shapes \in TextsUpTo(AppShapes, MaxAppRows)}

Years == {2023, 2024}

NoGrid == [ncols |-> 0, rows |-> <<>>]

-----------------------------------------------------------------------------
(* The call of _to_number on one cell *)

NumIdle == x = Empty /\ num_pc = "idle" /\ num_out = 0
ExIdle ==
    /\ df_raw = NoGrid /\ year = 0 /\ ex_pc = "idle" /\ ex_exc = "none"
    /\ ex_out = <<>> /\ marker_idx = -1
AppIdle ==
    /\ files = <<>> /\ df23 = <<>> /\ df24 = <<>> /\ df = <<>>
    /\ pc = "idle" /\ error_shown = FALSE /\ rendered = <<>>

num_vars == <<x, num_pc, num_out>>
ex_vars == <<df_raw, year, ex_pc, ex_exc, ex_out, marker_idx>>
app_vars == <<files, df23, df24, df, pc, error_shown, rendered>>

InitNum ==
    /\ x \in NumCells /\ num_pc = "call" /\ num_out = 0
    /\ ExIdle /\ AppIdle

CallToNumber ==
    /\ num_pc = "call"
    /\ LET r == _to_number(x)
       IN  /\ num_pc' = IF r.exc = "none" THEN "returned" ELSE "raised"
           /\ num_out' = r.value
    /\ UNCHANGED <<x, ex_vars, app_vars>>

NextNum == CallToNumber

SpecNum == InitNum /\ [][NextNum]_vars

-----------------------------------------------------------------------------
(* The call of extract_province_section on one grid *)

InitExtract ==
    /\ df_raw \in Grids /\ year \in Years
    /\ ex_pc = "call" /\ ex_exc = "none" /\ ex_out = <<>> /\ marker_idx = -1
    /\ NumIdle /\ AppIdle

CallExtract ==
    /\ ex_pc = "call"
    /\ \E r \in ExtractOutcomes(df_raw, year) :
           /\ ex_pc' = IF r.exc = "none" THEN "returned" ELSE "raised"
           /\ ex_exc' = r.exc
           /\ ex_out' = r.table
           /\ marker_idx' = r.marker_idx
    /\ UNCHANGED <<df_raw, year, num_vars, app_vars>>

NextExtract == CallExtract

SpecExtract == InitExtract /\ [][NextExtract]_vars

-----------------------------------------------------------------------------
(* The script: file check, the two loads, the merge, the presentation *)

\* A data file: it may not exist, may not be readable by read_excel, or holds a grid
Files ==
    {[exists |-> FALSE, readable |-> FALSE, grid |-> NoGrid],
     [exists |-> TRUE, readable |-> FALSE, grid |-> NoGrid]}
    \cup {[exists |-> TRUE, readable |-> TRUE, grid |-> g] : g \in AppGrids}

\* load_from_excel(path, year): read_excel, then extract_province_section
load_from_excel(f, yr) ==
    IF ~f.readable THEN {Raise("ReadError")} ELSE ExtractOutcomes(f.grid, yr)

\* Variant: a record whose province is already in the table is dropped
pd_concat_drop_duplicates(a, b) ==
    LET c == a \o b
        firsts == {k \in DOMAIN c : \A l \in 1..(k - 1) : c[l].Provinsi # c[k].Provinsi}
        order == Ascending(firsts)
    IN  [k \in DOMAIN order |-> [c[order[k]] EXCEPT !.index = k - 1]]

\* pd.concat([a, b], ignore_index = True): a followed by b, relabelled 0 .. n - 1
pd_concat(a, b) ==
    LET c == a \o b IN [k \in DOMAIN c |-> [c[k] EXCEPT !.index = k - 1]]

InitApp ==
    /\ files \in [Years -> Files]
    /\ df23 = <<>> /\ df24 = <<>> /\ df = <<>>
    /\ pc = "check_files" /\ error_shown = FALSE /\ rendered = <<>>
    /\ NumIdle /\ ExIdle

\* missing = [...]; if missing: st.error(...); st.stop()
CheckFiles ==
    /\ pc = "check_files"
    /\ IF \E y \in Years : ~files[y].exists
       THEN error_shown' = TRUE /\ pc' = "stopped"
       ELSE error_shown' = error_shown /\ pc' = "load23"
    /\ UNCHANGED <<files, df23, df24, df, rendered, num_vars, ex_vars>>

\* try: df23 = load_from_excel(FILE_2023, 2023) ... except: st.error; st.stop()
Load2023 ==
    /\ pc = "load23"
    /\ \E r \in load_from_excel(files[2023], 2023) :
           IF r.exc = "none"
           THEN df23' = r.table /\ pc' = "load24" /\ error_shown' = error_shown
           ELSE df23' = df23 /\ pc' = "stopped" /\ error_shown' = TRUE
    /\ UNCHANGED <<files, df24, df, rendered, num_vars, ex_vars>>

\* Variant: a failed load of 2024 is reported but the run goes on without it
Load2024_goes_on ==
    /\ pc = "load24"
    /\ \E r \in load_from_excel(files[2024], 2024) :
           IF r.exc = "none"
           THEN df24' = r.table /\ pc' = "concat" /\ error_shown' = error_shown
           ELSE df24' = <<>> /\ pc' = "concat" /\ error_shown' = TRUE
    /\ UNCHANGED <<files, df23, df, rendered, num_vars, ex_vars>>

\* try: ... df24 = load_from_excel(FILE_2024, 2024) except: st.error; st.stop()
Load2024 ==
    /\ pc = "load24"
    /\ \E r \in load_from_excel(files[2024], 2024) :
           IF r.exc = "none"
           THEN df24' = r.table /\ pc' = "concat" /\ error_shown' = error_shown
           ELSE df24' = df24 /\ pc' = "stopped" /\ error_shown' = TRUE
    /\ UNCHANGED <<files, df23, df, rendered, num_vars, ex_vars>>

\* df = pd.concat([df23, df24], ignore_index=True)
Concat ==
    /\ pc = "concat"
    /\ df' = pd_concat(df23, df24)
    /\ pc' = "render"
    /\ UNCHANGED <<files, df23, df24, error_shown, rendered, num_vars, ex_vars>>

\* The sidebar, the KPI row, the charts and the preview, all fed from df
Render ==
    /\ pc = "render"
    /\ rendered' = <<df>>
    /\ pc' = "done"
    /\ UNCHANGED <<files, df23, df24, df, error_shown, num_vars, ex_vars>>

NextApp == CheckFiles \/ Load2023 \/ Load2024 \/ Concat \/ Render

SpecApp == InitApp /\ [][NextApp]_vars

-----------------------------------------------------------------------------
(* Claims about _to_number (SpecNum) *)

\* The text between the first and the last character that is not a space
TrimmedText(t) ==
    LET solid == {i \in DOMAIN t : t[i] # " "}
    IN  IF solid = {} THEN <<>>
        ELSE SubSeq(t, CHOOSE i \in solid : \A j \in solid : i <= j,
                       CHOOSE i \in solid : \A j \in solid : i >= j)

WithoutCommas(t) == SelectSeq(t, LAMBDA c : c # ",")

RECURSIVE DecimalValue(_, _)
DecimalValue(t, acc) ==
    IF t = <<>> THEN acc
    ELSE DecimalValue(Tail(t), 10 * acc + (CHOOSE d \in 0..9 : Digits[d + 1] = Head(t)))

\* The text reads as a number: an optional sign, then one digit or more,
\* with blanks allowed around it
ReadsAsNumber(t) ==
    LET u == TrimmedText(t)
        b == IF u # <<>> /\ u[1] \in {"-", "+"} THEN Tail(u) ELSE u
    IN  b # <<>> /\ \A i \in DOMAIN b : b[i] \in {Digits[d] : d \in 1..10}

NumberRead(t) ==
    LET u == TrimmedText(t)
    IN  IF u[1] = "-" THEN 0 - DecimalValue(Tail(u), 0)
        ELSE IF u[1] = "+" THEN DecimalValue(Tail(u), 0)
        ELSE DecimalValue(u, 0)

ExpectedNumber(c) ==
    IF c.kind = "empty" THEN 0
    ELSE IF c.kind = "num" THEN c.n
    ELSE IF c.kind = "text"
    THEN LET t == TrimmedText(c.s)
         IN  IF t \in {<<"-">>, <<"EMDASH">>, <<"ENDASH">>, <<>>} THEN 0
             ELSE IF ReadsAsNumber(WithoutCommas(t)) THEN NumberRead(WithoutCommas(t))
             ELSE 0
    ELSE 0

\* C4: _to_number never raises; an empty cell gives 0, a text that trims to a
\* dash variant or to nothing gives 0, any other text gives the number read
\* from the trimmed text without its commas (0 when it does not read as a
\* number), and a numeric cell gives its own value.
C4_ToNumberTotal ==
    num_pc \notin {"call", "idle"} =>
        /\ num_pc = "returned"
        /\ num_out = ExpectedNumber(x)

\* The text " 1,234 " was coerced to 1234
C4_Witness ==
    /\ num_pc = "returned"
    /\ x = Text(<<" ", "1", ",", "2", "3", "4", " ">>)
    /\ num_out = 1234

-----------------------------------------------------------------------------
(* Claims about extract_province_section (SpecExtract) *)

CellHasMarker(c) ==
    LET t == CellStr(c)
    IN  \E i \in 1..Len(t) : \E j \in i..Len(t) : SubSeq(t, i, j) = Marker

RowsWithMarkerInFirstColumn ==
    {i \in 0..(Len(df_raw.rows) - 1) :
        df_raw.ncols >= 1 /\ CellHasMarker(df_raw.rows[i + 1][1])}

RowsWithMarkerAnywhere ==
    {i \in 0..(Len(df_raw.rows) - 1) :
        \E j \in 1..df_raw.ncols : CellHasMarker(df_raw.rows[i + 1][j])}

IndicatorFields ==
    {"Jumlah_Kejadian", "Meninggal_Hilang", "Luka_Luka", "Mengungsi_Terdampak",
     "Rumah_Rusak_Berat", "Rumah_Rusak_Sedang", "Rumah_Rusak_Ringan",
     "Rumah_Terendam", "Fasilitas_Pendidikan", "Fasilitas_Peribadatan",
     "Fasilitas_Kesehatan"}

\* C1: every returned record has a non-empty province code and a non-empty
\* province name, and no returned province code starts with "-".
C1_CodeAndNamePresent ==
    ex_pc = "returned" =>
        \A k \in DOMAIN ex_out :
            /\ ex_out[k].Kode_Provinsi # <<>>
            /\ ex_out[k].Provinsi # <<>>
            /\ ex_out[k].Kode_Provinsi[1] # "-"

\* C2: on a grid no cell of which contains the marker, the call fails with
\* the structure error and returns no record.
C2_NoMarkerIsStructureError ==
    (ex_pc \notin {"call", "idle"} /\ RowsWithMarkerAnywhere = {}) =>
        /\ ex_pc = "raised"
        /\ ex_exc = "StructureError"
        /\ ex_out = <<>>

\* C3: on a grid some cell of which contains the marker, the call returns a
\* table without raising, whatever the number of columns.
C3_MarkerPresentNeverRaises ==
    (ex_pc \notin {"call", "idle"} /\ RowsWithMarkerAnywhere # {}) =>
        ex_pc = "returned"

\* C5: every indicator field of every returned record is non-negative.
C5_IndicatorsNonNegative ==
    ex_pc = "returned" =>
        \A k \in DOMAIN ex_out : \A f \in IndicatorFields : ex_out[k][f] >= 0

\* C6: in every returned record Total_Dampak_Indikator is the sum of the event
\* count, deaths/missing, injuries, displaced/affected and the three tiers of
\* house damage of that record; flooded houses, the facility counts and any
\* cell of the grid beyond the thirteenth column are not part of it.
C6_TotalIsSumOfSeven ==
    ex_pc = "returned" =>
        \A k \in DOMAIN ex_out :
            ex_out[k].Total_Dampak_Indikator =
                ex_out[k].Jumlah_Kejadian + ex_out[k].Meninggal_Hilang
                + ex_out[k].Luka_Luka + ex_out[k].Mengungsi_Terdampak
                + ex_out[k].Rumah_Rusak_Berat + ex_out[k].Rumah_Rusak_Sedang
                + ex_out[k].Rumah_Rusak_Ringan

\* A record with flooded houses and facility counts, from a grid that has a
\* fourteenth column, whose total is not zero
C6_Witness ==
    /\ ex_pc = "returned"
    /\ df_raw.ncols > 13
    /\ \E k \in DOMAIN ex_out :
           /\ ex_out[k].Total_Dampak_Indikator > 0
           /\ ex_out[k].Rumah_Terendam > 0
           /\ ex_out[k].Fasilitas_Kesehatan > 0

\* C9: the marker row is the lowest row whose first-column cell contains the
\* marker (case-sensitive); only when no first-column cell contains it, the
\* lowest row with any cell that contains it.
C9_MarkerRowChoice ==
    ex_pc = "returned" =>
        IF RowsWithMarkerInFirstColumn # {}
        THEN /\ marker_idx \in RowsWithMarkerInFirstColumn
             /\ \A i \in RowsWithMarkerInFirstColumn : marker_idx <= i
        ELSE /\ marker_idx \in RowsWithMarkerAnywhere
             /\ \A i \in RowsWithMarkerAnywhere : marker_idx <= i

\* A first-column match was chosen over an earlier row that holds the marker
\* in another column
C9_Witness ==
    /\ ex_pc = "returned"
    /\ marker_idx \in RowsWithMarkerInFirstColumn
    /\ \E i \in RowsWithMarkerAnywhere : i < marker_idx
    /\ ex_out # <<>>

\* The rows strictly after the marker row whose code and name are present
\* and whose code, as text, does not start with "-"
QualifyingRows ==
    {i \in 0..(Len(df_raw.rows) - 1) :
        /\ i > marker_idx
        /\ df_raw.rows[i + 1][1].kind # "empty"
        /\ df_raw.rows[i + 1][2].kind # "empty"
        /\ LET t == CellStr(df_raw.rows[i + 1][1]) IN t = <<>> \/ t[1] # "-"}

-----------------------------------------------------------------------------
(* Claims about the script (SpecApp) *)

\* The columns of a record, without its row label
Columns(r) == [f \in DOMAIN r \ {"index"} |-> r[f]]

LoadFails(y) ==
    \/ ~files[y].exists
    \/ ~files[y].readable
    \/ \E r \in ExtractOutcomes(files[y].grid, y) : r.exc # "none"

\* C8: the merge and the presentation are reached only when both files exist
\* and both loads succeeded; on a missing file or a failed load an error is
\* shown and the run stops with no unified table built and nothing rendered.
C8_NoRenderOnFailure ==
    /\ pc \in {"load23", "load24", "concat", "render", "done"} =>
           \A y \in Years : files[y].exists
    /\ (pc \in {"concat", "render", "done"} \/ df # <<>> \/ rendered # <<>>) =>
           \A y \in Years : ~LoadFails(y)
    /\ pc = "stopped" =>
           /\ \E y \in Years : LoadFails(y)
           /\ error_shown /\ df = <<>> /\ rendered = <<>>
    /\ (pc \in {"stopped", "done"} /\ \E y \in Years : LoadFails(y)) =>
           pc = "stopped"
    /\ rendered # <<>> => (pc = "done" /\ rendered[1] = df)

\* 2023 loaded with records, the load of 2024 failed, and the run stopped
C8_Witness ==
    /\ pc = "stopped"
    /\ df23 # <<>>
    /\ ~LoadFails(2023)
    /\ LoadFails(2024)
    /\ error_shown

====
